---- MODULE Spec2Model ----
(***************************************************************************)
(* Model of src/src/stats.rs: CharacterStats, a pair of maps keyed by Stat *)
(* (base values and accumulated multipliers, both f32), with the           *)
(* operations new, get_stat, add_multiplier and sub_multiplier.            *)
(*                                                                         *)
(* f32 values are modelled bit-exactly as a signed 24-bit significand and  *)
(* a binary exponent, with IEEE-754 round-to-nearest-even addition and     *)
(* multiplication.  All values the model draws are finite and normal, so   *)
(* NaN, infinities and subnormals are not represented; FloatOK states the  *)
(* range in which that is sound.  Zero carries no sign, which no operation *)
(* of the program can observe (the result is cast to i32).                 *)
(***************************************************************************)
EXTENDS Integers, Sequences, FiniteSets

\* ------------------------------------------------------------------ f32

\* Bits of an f32 significand, hidden bit included.
MantBits == 24

Two(k) == 2 ^ k

Abs(x) == IF x < 0 THEN -x ELSE x

Sgn(x) == IF x < 0 THEN -1 ELSE 1

\* Number of bits of n >= 0 (0 for n = 0); n stays below 2^30.
BitLen(n) == CHOOSE k \in 0..30 : (k = 0 \/ Two(k - 1) <= n) /\ n < Two(k)

\* The f32 with value m * 2^e.
F32(m, e) == [m |-> m, e |-> e]

Zero == F32(0, 0)

\* The f32 nearest to sign * mag * 2^exp, ties to even.  mag < 2^30.
\* When mag has more than MantBits + 1 bits, its lowest bit may be a sticky
\* bit standing for discarded lower bits.
RoundPack(sign, mag, exp) ==
    LET len == BitLen(mag)
    IN  IF mag = 0 THEN Zero
        ELSE IF len <= MantBits
        THEN F32(sign * mag * Two(MantBits - len), exp - (MantBits - len))
        ELSE LET sh   == len - MantBits
                 q    == mag \div Two(sh)
                 r    == mag % Two(sh)
                 half == Two(sh - 1)
                 up   == r > half \/ (r = half /\ q % 2 = 1)
                 q1   == IF up THEN q + 1 ELSE q
             IN  IF q1 = Two(MantBits)
                 THEN F32(sign * Two(MantBits - 1), exp + sh + 1)
                 ELSE F32(sign * q1, exp + sh)

\* n shifted right by d bits, any discarded one bit kept in the lowest bit.
ShiftRightJam(n, d) ==
    IF d = 0 THEN n
    ELSE IF d >= 30 THEN (IF n = 0 THEN 0 ELSE 1)
    ELSE LET q == n \div Two(d)
         IN  IF n % Two(d) = 0 THEN q ELSE (q - (q % 2)) + 1

\* f32 addition a + b.
FAdd(a, b) ==
    IF a.m = 0 THEN b
    ELSE IF b.m = 0 THEN a
    ELSE LET hi  == IF a.e >= b.e THEN a ELSE b
             lo  == IF a.e >= b.e THEN b ELSE a
             d   == hi.e - lo.e
             big == Abs(hi.m) * 8
             sml == ShiftRightJam(Abs(lo.m) * 8, d)
             sum == Sgn(hi.m) * big + Sgn(lo.m) * sml
         IN  RoundPack(Sgn(sum), Abs(sum), hi.e - 3)

FNeg(a) == F32(-a.m, a.e)

\* f32 subtraction a - b, which IEEE-754 defines as a + (-b).
FSub(a, b) == FAdd(a, FNeg(b))

\* f32 multiplication a * b: the 48-bit product from 12-bit limbs.
FMul(a, b) ==
    IF a.m = 0 \/ b.m = 0 THEN Zero
    ELSE LET x    == Abs(a.m)
             y    == Abs(b.m)
             limb == Two(12)
             xh   == x \div limb
             xl   == x % limb
             yh   == y \div limb
             yl   == y % limb
             low  == xl * yl
             mid  == xh * yl + xl * yh + (low \div limb)
             high == xh * yh + (mid \div limb)
             rest == (mid % limb) * limb + (low % limb)
             top  == high * 8 + (rest \div Two(21))
             mag  == IF rest % Two(21) = 0 THEN top ELSE (top - (top % 2)) + 1
         IN  RoundPack(Sgn(a.m) * Sgn(b.m), mag, a.e + b.e + 21)

\* The f32 of a small integer (n as f32), exact for |n| < 2^24.
FromInt(n) == RoundPack(Sgn(n), Abs(n), 0)

One == FromInt(1)

\* TRUE iff the real sum a + b is an f32, so that FAdd(a, b) rounds nothing
\* away: no one bit is lost aligning the operands, none packing the sum.
AddIsExact(a, b) ==
    \/ a.m = 0
    \/ b.m = 0
    \/ LET hi  == IF a.e >= b.e THEN a ELSE b
           lo  == IF a.e >= b.e THEN b ELSE a
           d   == hi.e - lo.e
           sum == Sgn(hi.m) * Abs(hi.m) * 8
                    + Sgn(lo.m) * ShiftRightJam(Abs(lo.m) * 8, d)
           len == BitLen(Abs(sum))
       IN  /\ d < 28
           /\ (Abs(lo.m) * 8) % Two(d) = 0
           /\ (len <= MantBits \/ Abs(sum) % Two(len - MantBits) = 0)

I32Max == 2147483647

I32Min == -2147483647 - 1

\* A rounding that breaks ties to the even neighbour instead.
RoundHalfEvenToI32(a) ==
    IF a.m = 0 THEN 0
    ELSE IF a.e >= 8 THEN (IF a.m < 0 THEN I32Min ELSE I32Max)
    ELSE IF a.e >= 0 THEN a.m * Two(a.e)
    ELSE IF -a.e > MantBits + 1 THEN 0
    ELSE LET k    == -a.e
             q    == Abs(a.m) \div Two(k)
             r    == Abs(a.m) % Two(k)
             half == Two(k - 1)
             up   == r > half \/ (r = half /\ q % 2 = 1)
         IN  Sgn(a.m) * (IF up THEN q + 1 ELSE q)

\* f32::round followed by `as i32`: nearest integer, ties away from zero,
\* saturating at the i32 range.
RoundToI32(a) ==
    IF a.m = 0 THEN 0
    ELSE IF a.e >= 8 THEN (IF a.m < 0 THEN I32Min ELSE I32Max)
    ELSE IF a.e >= 0 THEN a.m * Two(a.e)
    ELSE IF -a.e > MantBits THEN 0
    ELSE LET k == -a.e
             q == Abs(a.m) \div Two(k)
             r == Abs(a.m) % Two(k)
         IN  Sgn(a.m) * (IF r >= Two(k - 1) THEN q + 1 ELSE q)

\* TRUE iff a is zero or a normal f32 (no overflow, no subnormal).
IsNormal(a) ==
    \/ a = Zero
    \/ /\ Two(MantBits - 1) <= Abs(a.m)
       /\ Abs(a.m) < Two(MantBits)
       /\ a.e >= -149
       /\ a.e <= 104

\* ---------------------------------------------------------------- values

\* enum Stat
Stat == {"Str", "Int", "Swi"}

\* The f32 literals the model draws its inputs from.
F_0_1 == F32(13421773, -27)     \* 0.1_f32

F_0_7 == F32(11744051, -24)     \* 0.7_f32

F_0_5 == F32(8388608, -24)      \* 0.5_f32

F_10 == F32(10485760, -20)      \* 10_f32

F_5 == F32(10485760, -21)       \* 5_f32

F_2_5 == F32(10485760, -22)     \* 2.5_f32

\* Mutator calls of an arbitrary caller / loop iterations of a test.
MaxOps == 3

MaxN == 7

\* Inputs of an arbitrary caller.
FreeBases == {F_5}

FreeVals == {F_0_7, FNeg(F_0_5)}

\* Inputs of the tests, widened from base 10 and +-0.1.
TestBases == {F_10, F_5, F_2_5}

TestVals == {F_0_1, FNeg(F_0_1), F_0_7}

\* HashMap::new()
EmptyMap == [s \in {} |-> Zero]

\* HashMap::get: the value as an option, <<v>> or << >>.
MapGet(map, key) == IF key \in DOMAIN map THEN <<map[key]>> ELSE << >>

\* HashMap::entry(key).or_insert(default): the map with the entry present.
EntryOrInsert(map, key, default) ==
    IF key \in DOMAIN map THEN map
    ELSE [k \in DOMAIN map \cup {key} |-> IF k = key THEN default ELSE map[k]]

\* ------------------------------------------------------- CharacterStats

\* Multiplier::new
Multiplier(stat, value) == [stat |-> stat, value |-> value]

\* CharacterStats::new
new(b) == [base |-> b, multipliers |-> EmptyMap]

\* mock_base_stats of the tests, for a base value b.
mock_base_stats(b) == new([s \in Stat |-> b])

\* get_stat with `Some(val) => *val`: the 1 + forgotten.
get_stat_no_one(self, stat) ==
    LET val        == MapGet(self.multipliers, stat)
        multiplier == IF val # << >> THEN val[1] ELSE One
        b          == MapGet(self.base, stat)
    IN  [self |-> self,
         ret  |-> IF b = << >> THEN << >>
                  ELSE <<RoundToI32(FMul(b[1], multiplier))>>]

\* get_stat with base.get(&stat).unwrap_or(&0.0): no panic.
get_stat_or_zero(self, stat) ==
    LET val        == MapGet(self.multipliers, stat)
        multiplier == IF val # << >> THEN FAdd(One, val[1]) ELSE One
        b          == MapGet(self.base, stat)
    IN  [self |-> self,
         ret  |-> IF b = << >> THEN <<0>>
                  ELSE <<RoundToI32(FMul(b[1], multiplier))>>]

\* get_stat reading through multipliers.entry(stat).or_insert(0.0).
get_stat_inserting(self, stat) ==
    LET e          == EntryOrInsert(self.multipliers, stat, Zero)
        multiplier == FAdd(One, e[stat])
        b          == MapGet(self.base, stat)
    IN  [self |-> [self EXCEPT !.multipliers = e],
         ret  |-> IF b = << >> THEN << >>
                  ELSE <<RoundToI32(FMul(b[1], multiplier))>>]

\* CharacterStats::get_stat: the instance after the call, and the value
\* returned, << >> when base.get(&stat).unwrap() panics.
get_stat(self, stat) ==
    LET val        == MapGet(self.multipliers, stat)
        multiplier == IF val # << >> THEN FAdd(One, val[1]) ELSE One
        b          == MapGet(self.base, stat)
    IN  [self |-> self,
         ret  |-> IF b = << >> THEN << >>
                  ELSE <<RoundToI32(FMul(b[1], multiplier))>>]

\* add_multiplier with `=` for `+=`.
add_multiplier_overwrite(self, m) ==
    LET e == EntryOrInsert(self.multipliers, m.stat, Zero)
    IN  [self EXCEPT !.multipliers = [e EXCEPT ![m.stat] = m.value]]

\* add_multiplier through multipliers.get_mut: a missing entry is skipped.
add_multiplier_existing_only(self, m) ==
    IF m.stat \in DOMAIN self.multipliers
    THEN [self EXCEPT !.multipliers[m.stat] = FAdd(@, m.value)]
    ELSE self

\* add_multiplier with stat.value.abs().
add_multiplier_abs(self, m) ==
    LET e == EntryOrInsert(self.multipliers, m.stat, Zero)
    IN  [self EXCEPT !.multipliers =
            [e EXCEPT ![m.stat] = FAdd(@, F32(Abs(m.value.m), m.value.e))]]

\* add_multiplier with self.base for self.multipliers.
add_multiplier_base(self, m) ==
    LET e == EntryOrInsert(self.base, m.stat, Zero)
    IN  [self EXCEPT !.base = [e EXCEPT ![m.stat] = FAdd(@, m.value)]]

\* CharacterStats::add_multiplier: the instance after the call.
add_multiplier(self, m) ==
    LET e == EntryOrInsert(self.multipliers, m.stat, Zero)
    IN  [self EXCEPT !.multipliers = [e EXCEPT ![m.stat] = FAdd(@, m.value)]]

\* sub_multiplier with `+=` for `-=`.
sub_multiplier_adds(self, m) ==
    LET e == EntryOrInsert(self.multipliers, m.stat, Zero)
    IN  [self EXCEPT !.multipliers = [e EXCEPT ![m.stat] = FAdd(@, m.value)]]

\* sub_multiplier that clamps the accumulated multiplier at 0.0.
sub_multiplier_clamped(self, m) ==
    LET e == EntryOrInsert(self.multipliers, m.stat, Zero)
        d == FSub(e[m.stat], m.value)
    IN  [self EXCEPT !.multipliers =
            [e EXCEPT ![m.stat] = IF d.m < 0 THEN Zero ELSE d]]

\* CharacterStats::sub_multiplier: the instance after the call.
sub_multiplier(self, m) ==
    LET e == EntryOrInsert(self.multipliers, m.stat, Zero)
    IN  [self EXCEPT !.multipliers = [e EXCEPT ![m.stat] = FSub(@, m.value)]]

\* ------------------------------------------------------------ the machine

VARIABLES
    stats,      \* the CharacterStats instance
    panicked,   \* TRUE once a call has panicked
    call,       \* the last call: [op, stat, value]
    ret,        \* what the last call returned: <<i32>> from get_stat, else << >>
    hist,       \* the last two mutator calls, each with the instance before it
    nops,       \* mutator calls so far
    pc,         \* "free": arbitrary caller; "add", "sub", "get", "done": a test
    test,       \* the test's multiplier, loop count and whether it removes
    i           \* the test's loop counter

vars == <<stats, panicked, call, ret, hist, nops, pc, test, i>>

NoTest == [mult |-> Multiplier("Str", Zero), n |-> 0, rm |-> FALSE]

Tests ==
    [mult : {Multiplier(s, v) : s \in Stat, v \in TestVals},
     n    : 1..MaxN,
     rm   : BOOLEAN]

Call(op, stat, value) == [op |-> op, stat |-> stat, value |-> value]

\* The last two entries of the history h extended by r.
Push(h, r) == IF Len(h) < 2 THEN Append(h, r) ELSE <<h[2], r>>

Init ==
    /\ panicked = FALSE
    /\ call = Call("new", "Str", Zero)
    /\ ret = << >>
    /\ hist = << >>
    /\ nops = 0
    /\ i = 0
    /\ \/ /\ pc = "free"
          /\ test = NoTest
          /\ \E S \in SUBSET Stat : \E b \in FreeBases :
                stats = new([s \in S |-> b])
       \/ /\ pc = "add"
          /\ test \in Tests
          /\ \E b \in TestBases : stats = mock_base_stats(b)

\* A call of get_stat(stat).
DoGet(stat) ==
    LET r == get_stat(stats, stat)
    IN  /\ ~panicked
        /\ stats' = r.self
        /\ ret' = r.ret
        /\ panicked' = (r.ret = << >>)
        /\ call' = Call("get_stat", stat, Zero)
        /\ UNCHANGED <<hist, nops>>

\* A call of add_multiplier(&m).
DoAdd(m) ==
    /\ ~panicked
    /\ stats' = add_multiplier(stats, m)
    /\ call' = Call("add_multiplier", m.stat, m.value)
    /\ hist' = Push(hist, [op |-> "add_multiplier", m |-> m, before |-> stats])
    /\ nops' = nops + 1
    /\ ret' = << >>
    /\ UNCHANGED panicked

\* A call of sub_multiplier(&m).
DoSub(m) ==
    /\ ~panicked
    /\ stats' = sub_multiplier(stats, m)
    /\ call' = Call("sub_multiplier", m.stat, m.value)
    /\ hist' = Push(hist, [op |-> "sub_multiplier", m |-> m, before |-> stats])
    /\ nops' = nops + 1
    /\ ret' = << >>
    /\ UNCHANGED panicked

\* An arbitrary caller.
FreeGet ==
    /\ pc = "free"
    /\ \E s \in Stat : DoGet(s)
    /\ UNCHANGED <<pc, test, i>>

FreeAdd ==
    /\ pc = "free"
    /\ nops < MaxOps
    /\ \E s \in Stat : \E v \in FreeVals : DoAdd(Multiplier(s, v))
    /\ UNCHANGED <<pc, test, i>>

FreeSub ==
    /\ pc = "free"
    /\ nops < MaxOps
    /\ \E s \in Stat : \E v \in FreeVals : DoSub(Multiplier(s, v))
    /\ UNCHANGED <<pc, test, i>>

\* The tests: for _ in 0..n { add }, then for _ in 0..n { sub } when the
\* test removes, then get_stat.
TestAdd ==
    /\ pc = "add"
    /\ DoAdd(test.mult)
    /\ IF i + 1 < test.n
       THEN pc' = "add" /\ i' = i + 1
       ELSE pc' = (IF test.rm THEN "sub" ELSE "get") /\ i' = 0
    /\ UNCHANGED test

TestSub ==
    /\ pc = "sub"
    /\ DoSub(test.mult)
    /\ IF i + 1 < test.n
       THEN pc' = "sub" /\ i' = i + 1
       ELSE pc' = "get" /\ i' = 0
    /\ UNCHANGED test

TestGet ==
    /\ pc = "get"
    /\ DoGet(test.mult.stat)
    /\ pc' = "done"
    /\ UNCHANGED <<test, i>>

Next ==
    \/ FreeGet
    \/ FreeAdd
    \/ FreeSub
    \/ TestAdd
    \/ TestSub
    \/ TestGet

Spec == Init /\ [][Next]_vars

\* Every f32 the program holds is zero or normal: the range in which the
\* f32 operators above are exact models of IEEE-754.
FloatOK ==
    /\ \A s \in DOMAIN stats.base : IsNormal(stats.base[s])
    /\ \A s \in DOMAIN stats.multipliers : IsNormal(stats.multipliers[s])

\* ---------------------------------------------------------------- claims

Mutators == {"add_multiplier", "sub_multiplier"}

\* The accumulated multiplier of stat s, 0.0 when there is no entry.
Acc(self, s) == IF s \in DOMAIN self.multipliers THEN self.multipliers[s] ELSE Zero

\* round(b * (1.0 + acc)) in f32, as an i32.
Effective(b, acc) == RoundToI32(FMul(b, FAdd(One, acc)))

\* The f32 running sum 0.0 + p + ... + p of k terms, rounded at every step.
RECURSIVE SeqSum(_, _)
SeqSum(p, k) == IF k = 0 THEN Zero ELSE FAdd(SeqSum(p, k - 1), p)

\* The latest mutator call in the history.
Last == hist[Len(hist)]

\* C1: get_stat(s) for a stat of base returns round(base[s] * (1.0 + acc)),
\* acc the accumulated multiplier of s or 0.0 without an entry; on a fresh
\* instance it returns round(base[s]).
C1_GetStatValue ==
    (call.op = "get_stat" /\ call.stat \in DOMAIN stats.base) =>
        /\ ret = <<Effective(stats.base[call.stat], Acc(stats, call.stat))>>
        /\ (nops = 0 => ret = <<RoundToI32(stats.base[call.stat])>>)

C1_Witness ==
    /\ call.op = "get_stat"
    /\ ret # << >>
    /\ Acc(stats, call.stat) # Zero
    /\ ret # <<RoundToI32(stats.base[call.stat])>>

\* C2 as stated: after N adds of the same Multiplier(s, P) on a fresh
\* instance, get_stat(s) is what one add of Multiplier(s, N * P) gives.
C2_Original ==
    (pc = "done" /\ ~test.rm) =>
        LET s   == test.mult.stat
            one == add_multiplier(new(stats.base),
                       Multiplier(s, FMul(FromInt(test.n), test.mult.value)))
        IN  ret = get_stat(one, s).ret

\* C2 amended: after N adds of the same Multiplier(s, P) on a fresh instance,
\* get_stat(s) is round(B * (1 + S)), S the f32 running sum of N terms P
\* rounded at every step (additive, not compounding); that is the result of
\* one add of Multiplier(s, N * P) whenever S is the f32 N * P, as it is for
\* N <= 2.
C2_Stacking ==
    (pc = "done" /\ ~test.rm) =>
        LET s   == test.mult.stat
            p   == test.mult.value
            np  == FMul(FromInt(test.n), p)
            one == add_multiplier(new(stats.base), Multiplier(s, np))
        IN  /\ ret = <<Effective(stats.base[s], SeqSum(p, test.n))>>
            /\ (test.n <= 2 => SeqSum(p, test.n) = np)
            /\ (SeqSum(p, test.n) = np => ret = get_stat(one, s).ret)

C2_Witness ==
    /\ pc = "done"
    /\ ~test.rm
    /\ test.n = 7
    /\ test.mult.value = F_0_1
    /\ stats.base[test.mult.stat] = F_10
    /\ ret = <<17>>

\* TRUE iff the history ends with add_multiplier(M), sub_multiplier(M).
RoundTrip ==
    /\ Len(hist) = 2
    /\ hist[1].op = "add_multiplier"
    /\ hist[2].op = "sub_multiplier"
    /\ hist[1].m = hist[2].m

\* C3 as stated: add_multiplier(M) then sub_multiplier(M) restores
\* get_stat(M.stat) to its value before the add, from any reachable state;
\* N adds then N subs of M restore it too.
C3_Original ==
    /\ (RoundTrip /\ Last.m.stat \in DOMAIN stats.base) =>
            get_stat(stats, Last.m.stat).ret
                = get_stat(hist[1].before, Last.m.stat).ret
    /\ (pc = "done" /\ test.rm) =>
            ret = <<RoundToI32(stats.base[test.mult.stat])>>

\* C3 amended: add_multiplier(M) then sub_multiplier(M) restores the
\* accumulated multiplier, and so get_stat(M.stat), whenever the f32 sum of
\* the accumulated multiplier and M.value is exact; N adds then N subs of M
\* on a fresh instance restore get_stat whenever every partial sum is exact.
C3_RoundTrip ==
    /\ (/\ RoundTrip
        /\ AddIsExact(Acc(hist[1].before, Last.m.stat), Last.m.value)) =>
            /\ Acc(stats, Last.m.stat) = Acc(hist[1].before, Last.m.stat)
            /\ get_stat(stats, Last.m.stat).ret
                   = get_stat(hist[1].before, Last.m.stat).ret
    /\ (/\ pc = "done"
        /\ test.rm
        /\ \A k \in 1..test.n :
              AddIsExact(SeqSum(test.mult.value, k - 1), test.mult.value)) =>
            /\ Acc(stats, test.mult.stat) = Zero
            /\ ret = <<RoundToI32(stats.base[test.mult.stat])>>

C3_Witness ==
    /\ RoundTrip
    /\ Acc(hist[1].before, Last.m.stat) # Zero
    /\ AddIsExact(Acc(hist[1].before, Last.m.stat), Last.m.value)
    /\ call.op = "get_stat"
    /\ call.stat = Last.m.stat
    /\ ret # << >>

\* C4: get_stat(s) for a stat absent from base returns no value: it panics,
\* with or without a multiplier entry for s, and base and multipliers are
\* as they were.
C4_MissingBasePanics ==
    [][(call'.op = "get_stat" /\ call'.stat \notin DOMAIN stats.base) =>
            /\ ret' = << >>
            /\ panicked'
            /\ stats' = stats]_vars

C4_Witness ==
    /\ panicked
    /\ call.op = "get_stat"
    /\ call.stat \notin DOMAIN stats.base
    /\ call.stat \in DOMAIN stats.multipliers

\* C5: add_multiplier(m) and sub_multiplier(m) never fail, for any stat, in
\* base or not, with an entry or not: afterwards the entry of m.stat exists
\* and is (previous value or 0.0) + m.value for add, - m.value for sub.
C5_MutatorsNeverFail ==
    [][(call'.op \in Mutators) =>
            LET s == call'.stat
                v == call'.value
            IN  /\ ~panicked'
                /\ s \in DOMAIN stats'.multipliers
                /\ stats'.multipliers[s] =
                       IF call'.op = "add_multiplier"
                       THEN FAdd(Acc(stats, s), v)
                       ELSE FSub(Acc(stats, s), v)]_vars

C5_Witness ==
    /\ call.op = "add_multiplier"
    /\ call.stat \notin DOMAIN stats.base
    /\ call.stat \notin DOMAIN Last.before.multipliers
    /\ stats.multipliers[call.stat] = call.value

\* C6: get_stat is a pure read: it leaves base and multipliers as they were
\* (no entry is created), and repeated with no add or sub between it returns
\* the same value.
C6_GetStatPure ==
    [][(call'.op = "get_stat") =>
            /\ stats' = stats
            /\ (call.op = "get_stat" /\ call.stat = call'.stat) => ret' = ret]_vars

C6_Witness ==
    /\ call.op = "get_stat"
    /\ ret # << >>
    /\ call.stat \notin DOMAIN stats.multipliers
    /\ stats.multipliers # EmptyMap

\* C7: sub_multiplier(m) of a value never added is not guarded or clamped:
\* the accumulated multiplier becomes (previous value or 0.0) - m.value,
\* negative too, and get_stat returns round(base * (1 + that)), zero or
\* negative included.
C7_UnbalancedSub ==
    (hist # << >> /\ Last.op = "sub_multiplier") =>
        LET s   == Last.m.stat
            acc == FSub(Acc(Last.before, s), Last.m.value)
        IN  /\ (call.op = "sub_multiplier" => ~panicked /\ ret = << >>)
            /\ Acc(stats, s) = acc
            /\ (Last.before.multipliers = EmptyMap => acc = FNeg(Last.m.value))
            /\ (s \in DOMAIN stats.base =>
                    get_stat(stats, s).ret = <<Effective(stats.base[s], acc)>>)

C7_Witness ==
    /\ Len(hist) = 2
    /\ nops = 2
    /\ hist[1].op = "sub_multiplier"
    /\ hist[2].op = "sub_multiplier"
    /\ hist[1].m = hist[2].m
    /\ Last.m.value.m > 0
    /\ call.op = "get_stat"
    /\ call.stat = Last.m.stat
    /\ ret # << >>
    /\ ret[1] < 0

\* C8: add_multiplier(Multiplier(s, -P)) leaves what
\* sub_multiplier(Multiplier(s, P)) leaves, and sub of -P what add of P
\* leaves: the same accumulated multiplier and the same get_stat(s).
C8_SignSymmetry ==
    [][(call'.op \in Mutators) =>
            LET neg == Multiplier(call'.stat, FNeg(call'.value))
                alt == IF call'.op = "add_multiplier"
                       THEN sub_multiplier(stats, neg)
                       ELSE add_multiplier(stats, neg)
            IN  /\ stats' = alt
                /\ get_stat(stats', call'.stat).ret = get_stat(alt, call'.stat).ret]_vars

C8_Witness ==
    /\ call.op = "add_multiplier"
    /\ call.value.m < 0
    /\ call.stat \in DOMAIN stats.base
    /\ stats = sub_multiplier(Last.before, Multiplier(call.stat, FNeg(call.value)))

\* TRUE iff the f32 a lies halfway between two integers.
IsTie(a) ==
    /\ a.e < 0
    /\ -a.e <= MantBits
    /\ Abs(a.m) % Two(-a.e) = Two(-a.e - 1)

\* The integer part of |a|, for a below 2^31.
Trunc(a) ==
    IF a.e >= 0 THEN Abs(a.m) * Two(a.e)
    ELSE IF -a.e > MantBits THEN 0
    ELSE Abs(a.m) \div Two(-a.e)

\* TRUE iff |n - a| < 1/2 for the integer n and the f32 a.
IsNearest(n, a) ==
    IF a.e >= 0 THEN n = a.m * Two(a.e)
    ELSE IF -a.e > MantBits THEN n = 0
    ELSE 2 * Abs(n * Two(-a.e) - a.m) < Two(-a.e)

\* C9: get_stat rounds half away from zero: a product base * (1 + acc)
\* halfway between two integers gives the one of larger absolute value, any
\* other product the nearest integer.
C9_RoundHalfAway ==
    (call.op = "get_stat" /\ ret # << >>) =>
        LET x == FMul(stats.base[call.stat], FAdd(One, Acc(stats, call.stat)))
        IN  IF IsTie(x)
            THEN ret[1] = Sgn(x.m) * (Trunc(x) + 1)
            ELSE IsNearest(ret[1], x)

C9_Witness ==
    /\ call.op = "get_stat"
    /\ ret = <<-3>>
    /\ IsTie(FMul(stats.base[call.stat], FAdd(One, Acc(stats, call.stat))))

\* C10: add_multiplier(m) and sub_multiplier(m) change only the multiplier
\* entry of m.stat: base stays what construction gave, and the accumulated
\* multiplier and get_stat of every other stat are unchanged.
C10_MutatorFrame ==
    [][/\ stats'.base = stats.base
       /\ (call'.op \in Mutators) =>
            \A t \in Stat \ {call'.stat} :
                /\ MapGet(stats'.multipliers, t) = MapGet(stats.multipliers, t)
                /\ get_stat(stats', t).ret = get_stat(stats, t).ret]_vars

C10_Witness ==
    /\ call.op = "sub_multiplier"
    /\ \E t \in Stat \ {call.stat} :
          /\ Acc(stats, t) # Zero
          /\ t \in DOMAIN stats.base
    /\ call.stat \in DOMAIN stats.base

====
